---------------------------- MODULE Spec2Model ----------------------------
(***************************************************************************)
(* Tile Detection & Recommendation: the client-side workflow (App), the    *)
(* Upload / Result / Recommendation pages, the ImageUploader's validation  *)
(* gate, the CameraCapture component and the two mock services.            *)
(*                                                                         *)
(* React state of a component that is not mounted is kept at its initial   *)
(* value (a remount starts from useState's initial values).  A handler and *)
(* the renders, mounts and effects it triggers form one action: React 18   *)
(* flushes the effects of a render caused by a click before the next       *)
(* event is handled.                                                       *)
(***************************************************************************)
EXTENDS Integers, Sequences, FiniteSets, TLC

(***************************************************************************)
(* Bounds of the model.                                                    *)
(***************************************************************************)
\* object URLs that may be live at once (createObjectURL is not offered beyond)
MaxUrls == 3
\* times the Recommendation page's entry effect may run for one entry
MaxEffectRuns == 2
\* service calls of one kind that may be outstanding at once
MaxPending == 2

(***************************************************************************)
(* Values.                                                                 *)
(***************************************************************************)
\* JS null for a File
NoFile == [type |-> "null", size |-> 0]
\* JS null for an object URL; live URLs are 1..MaxUrls
NoUrl == 0
\* JS null for the `error` / validation message states
NoError == "null"
\* JS null for detectionResults
NoResults == [isNull |-> TRUE, detections |-> <<>>]
\* JS null for a tile
NoTile == [id |-> -1, confidence |-> -1]
\* JS null for the recommendations state
NoRecommendations == [isNull |-> TRUE, items |-> <<>>]

(***************************************************************************)
(* ImageUploader: the validation gate.                                     *)
(***************************************************************************)
ALLOWED_TYPES == {"image/png", "image/jpeg", "image/jpg"}

MAX_FILE_SIZE == 10 * 1024 * 1024

MsgNoFile == "No file selected"

MsgInvalidType == "Invalid file type. Please upload PNG, JPG, or JPEG images only."

MsgTooLarge == "File too large. Maximum size is 10MB."

\* the mutant: the size test written >= instead of >
validateFileStrictSize(file) ==
    IF file = NoFile THEN MsgNoFile
    ELSE IF file.type \notin ALLOWED_TYPES THEN MsgInvalidType
    ELSE IF file.size >= MAX_FILE_SIZE THEN MsgTooLarge
    ELSE NoError

\* validateFile: the error message, or null (NoError) when the file is valid
validateFile(file) ==
    IF file = NoFile THEN MsgNoFile
    ELSE IF file.type \notin ALLOWED_TYPES THEN MsgInvalidType
    ELSE IF file.size > MAX_FILE_SIZE THEN MsgTooLarge
    ELSE NoError

\* MIME types and byte sizes the validation gate is exercised on
FileTypes == {"image/png", "image/jpeg", "image/jpg", "image/gif",
              "image/webp", "application/pdf", ""}

FileSizes == {0, 1, 2 * 1024 * 1024, MAX_FILE_SIZE - 1, MAX_FILE_SIZE,
              MAX_FILE_SIZE + 1, 15 * 1024 * 1024, 100 * 1024 * 1024}

AllFiles == [type : FileTypes, size : FileSizes]

\* the files a user picks or drops in the workflow
PickTypes == {"image/png", "image/jpeg", "image/gif"}

PickSizes == {MAX_FILE_SIZE, 15 * 1024 * 1024}

PickFiles == [type : PickTypes, size : PickSizes]


(***************************************************************************)
(* detectService: the mock Detection Service.                              *)
(***************************************************************************)
\* MOCK_TILES, by id
MOCK_TILES == <<1, 2, 3>>

\* the unit of Math.pow(random, k): a weighted draw w stands for w / Resolution
Resolution == 1000

Min(a, b) == IF a <= b THEN a ELSE b

\* the mutant: a range of 0.5 instead of 0.49
generateConfidenceWide(w) == (500 * Resolution + w * 500 + Resolution \div 2) \div Resolution

\* Number(x.toFixed(3)) of base + weighted * range, in thousandths
generateConfidence(w) == (500 * Resolution + w * 490 + Resolution \div 2) \div Resolution

\* the mutant: the sort left out
SortNothing(seq, field) == seq

RECURSIVE InsertDesc(_, _, _)
\* x placed behind every element whose score is >= its own
InsertDesc(sorted, x, field) ==
    IF sorted = <<>> THEN <<x>>
    ELSE IF Head(sorted)[field] >= x[field]
         THEN <<Head(sorted)>> \o InsertDesc(Tail(sorted), x, field)
         ELSE <<x>> \o sorted

RECURSIVE SortDesc(_, _)
\* Array.prototype.sort((a, b) => b[field] - a[field]): descending and stable
SortDesc(seq, field) ==
    IF seq = <<>> THEN <<>>
    ELSE InsertDesc(SortDesc(SubSeq(seq, 1, Len(seq) - 1), field), seq[Len(seq)], field)

\* a draw d: d.empty (Math.random() < EMPTY_DETECTION_PROBABILITY),
\* d.num (3..5) and d.weights (the weighted draw of each tile)
generateMockDetections(d) ==
    IF d.empty THEN [isNull |-> FALSE, detections |-> <<>>]
    ELSE LET n == Min(d.num, Len(MOCK_TILES))
             detections == [i \in 1..n |->
                              [id |-> MOCK_TILES[i],
                               confidence |-> generateConfidence(d.weights[i])]]
         IN [isNull |-> FALSE, detections |-> SortDesc(detections, "confidence")]

\* the weighted draws the workflow samples for a detection
DetectWeights == {163, 837}

DetectDraws ==
    {[empty |-> TRUE, num |-> 3, weights |-> [i \in 1..3 |-> 163]]}
    \cup [empty : {FALSE}, num : {3, 5}, weights : [1..3 -> DetectWeights]]

(***************************************************************************)
(* recommendService: the mock Recommendation Service.                      *)
(***************************************************************************)
MOCK_RECOMMENDATION_TILES == <<101, 102, 103, 104, 105, 106, 107, 108>>

\* Number(x.toFixed(3)) of minSimilarity + weighted * range, in thousandths
generateSimilarity(w) == (720 * Resolution + w * 230 + Resolution \div 2) \div Resolution

\* the mutant: the filter left out
FilterNothing(seq, id) == seq

RECURSIVE Filter(_, _)
\* MOCK_RECOMMENDATION_TILES.filter(tile => tile.id !== id)
Filter(seq, id) ==
    IF seq = <<>> THEN <<>>
    ELSE IF Head(seq) # id THEN <<Head(seq)>> \o Filter(Tail(seq), id)
         ELSE Filter(Tail(seq), id)

\* a draw d: d.empty, d.num (5..8), d.shuffle (the order the random comparator
\* leaves the available tiles in, as a rotation of them) and d.weight (the
\* weighted draw of the item at each position)
generateMockRecommendations(referenceTile, d) ==
    IF d.empty THEN [isNull |-> FALSE, items |-> <<>>]
    ELSE LET availableTiles == Filter(MOCK_RECOMMENDATION_TILES, referenceTile.id)
             m == Len(availableTiles)
             shuffled == [i \in 1..m |-> availableTiles[((i - 1 + d.shuffle) % m) + 1]]
             selected == SubSeq(shuffled, 1, Min(d.num, m))
             recommendations == [i \in 1..Len(selected) |->
                                   [id |-> selected[i],
                                    similarity |-> generateSimilarity(d.weight[i])]]
         IN [isNull |-> FALSE, items |-> SortDesc(recommendations, "similarity")]

\* the draws the workflow samples for a recommendation
RecommendDraws ==
    {[empty |-> TRUE, num |-> 5, shuffle |-> 0, weight |-> [i \in 1..8 |-> 0]],
     [empty |-> FALSE, num |-> 5, shuffle |-> 0, weight |-> [i \in 1..8 |-> 500]],
     [empty |-> FALSE, num |-> 8, shuffle |-> 3,
      weight |-> [i \in 1..8 |-> (i * 137) % Resolution]]}

(***************************************************************************)
(* State.                                                                  *)
(***************************************************************************)
VARIABLES
    \* App
    currentPage, uploadedImage, imagePreview, detectionResults,
    selectedTileForRecommendation,
    \* UploadPage
    isProcessing, uploadError, showCamera,
    \* ImageUploader
    uploaderError,
    \* RecommendationPage
    recIsLoading, recommendations, recError, hasFetchedRef,
    \* service calls in flight: sequences of [arg, stale]
    detectCalls, recommendCalls,
    \* the browser's live object URLs, by the component that created them
    appUrls, camUrls,
    \* bookkeeping: the App's URLs created since the last reset, whether the held
    \* image went through validateFile, and the effect runs / service calls of
    \* the current entry into the Recommendation page
    sinceReset, heldPassedGate, effectRuns, recIssued,
    \* CameraCapture: its state, refs and the callbacks it is waiting for
    camIsLoading, camError, isCaptured, capturedImage, streamRef, capturedFile,
    gumPending, metaPending, toBlobPending,
    \* bookkeeping of CameraCapture: the times the tracks of the stream the
    \* instance acquired were stopped, and the file the displayed still was
    \* made from
    trackStops, stillFile,
    \* the environment of CameraCapture: whether navigator.mediaDevices exists,
    \* the callbacks still owed to instances that are unmounted, and the camera
    \* streams that are active and referenced by no mounted instance
    mediaDevices, orphanGum, orphanToBlob, leakedStreams,
    \* the validation gate on its own: the file handed to validateFile and what
    \* it returned
    vFile, vResult,
    \* the services and ResultPage's selection on their own: the call made and
    \* what it returned
    svcInput, svcOutput,
    \* bookkeeping: the handler that took the last step, for the handlers a
    \* property is about ("other" for the rest)
    lastStep

appVars == <<currentPage, uploadedImage, imagePreview, detectionResults,
             selectedTileForRecommendation>>

uploadPageVars == <<isProcessing, uploadError, showCamera>>

recPageVars == <<recIsLoading, recommendations, recError, hasFetchedRef>>

urlVars == <<appUrls, camUrls, sinceReset>>

camStateVars == <<camIsLoading, camError, isCaptured, capturedImage, streamRef,
                  capturedFile, gumPending, metaPending, toBlobPending,
                  trackStops, stillFile>>

camEnvVars == <<mediaDevices, orphanGum, orphanToBlob, leakedStreams>>

camVars == <<camStateVars, camEnvVars>>

\* the variables of the functions checked on their own
pureVars == <<vFile, vResult, svcInput, svcOutput>>

vars == <<appVars, uploadPageVars, uploaderError, recPageVars, detectCalls,
          recommendCalls, urlVars, heldPassedGate, effectRuns, recIssued, camVars,
          pureVars, lastStep>>

\* everything but the variables of the functions checked on their own
workflowVars == <<appVars, uploadPageVars, uploaderError, recPageVars, detectCalls,
                  recommendCalls, urlVars, heldPassedGate, effectRuns, recIssued,
                  camVars, lastStep>>

MsgSelectImage == "Please select an image before detecting tiles."

MsgDetectFailed == "An error occurred while processing the image. Please try again."

MsgNoReference == "No reference tile provided. Please go back and select a tile."

MsgRecommendFailed == "Unable to find similar tiles. Please try again."

liveUrls == appUrls \cup camUrls

\* URL.createObjectURL: a URL that is not live
FreshUrl == CHOOSE u \in 1..MaxUrls :
                u \notin liveUrls /\ \A v \in 1..(u - 1) : v \in liveUrls

CanCreateUrl == Cardinality(liveUrls) < MaxUrls

InitWorkflow ==
    /\ currentPage = "upload"
    /\ uploadedImage = NoFile
    /\ imagePreview = NoUrl
    /\ detectionResults = NoResults
    /\ selectedTileForRecommendation = NoTile
    /\ isProcessing = FALSE
    /\ uploadError = NoError
    /\ showCamera = FALSE
    /\ uploaderError = NoError
    /\ recIsLoading = FALSE
    /\ recommendations = NoRecommendations
    /\ recError = NoError
    /\ hasFetchedRef = FALSE
    /\ detectCalls = <<>>
    /\ recommendCalls = <<>>
    /\ appUrls = {}
    /\ camUrls = {}
    /\ sinceReset = {}
    /\ heldPassedGate = FALSE
    /\ effectRuns = 0
    /\ recIssued = 0
    /\ camIsLoading = TRUE
    /\ camError = NoError
    /\ isCaptured = FALSE
    /\ capturedImage = NoUrl
    /\ streamRef = FALSE
    /\ capturedFile = NoFile
    /\ trackStops = 0
    /\ stillFile = NoFile
    /\ gumPending = FALSE
    /\ metaPending = FALSE
    /\ toBlobPending = 0
    /\ mediaDevices \in BOOLEAN
    /\ orphanGum = 0
    /\ orphanToBlob = 0
    /\ leakedStreams = 0
    /\ lastStep = "none"

\* no call made to a service on its own
NoCall == [kind |-> "none"]

NotCalled == [status |-> "idle"]

Init ==
    /\ InitWorkflow
    /\ vFile = NoFile
    /\ vResult = "idle"
    /\ svcInput = NoCall
    /\ svcOutput = NotCalled

(***************************************************************************)
(* What is rendered: a control's handler can run only while it is on       *)
(* screen.                                                                  *)
(***************************************************************************)
\* the mutant: the form left on the screen while a detect call is pending
UploadFormShownWhileProcessing == currentPage = "upload" /\ ~showCamera

\* UploadPage renders the uploader, the camera button and the detect button
UploadFormShown == currentPage = "upload" /\ ~isProcessing /\ ~showCamera

\* the mutant: an empty detection array counted as detections
hasDetectionsNotNull == ~detectionResults.isNull

\* ResultPage: hasDetections
hasDetections == ~detectionResults.isNull /\ Len(detectionResults.detections) > 0

\* the mutant: the first three as the service returned them
topDetectionsFirstThree(results) ==
    IF ~results.isNull /\ Len(results.detections) > 0
    THEN SubSeq(results.detections, 1, Min(3, Len(results.detections)))
    ELSE <<>>

\* ResultPage: topDetections for a detectionResults prop
topDetectionsOf(results) ==
    IF ~results.isNull /\ Len(results.detections) > 0
    THEN LET sorted == SortDesc(results.detections, "confidence")
         IN SubSeq(sorted, 1, Min(3, Len(sorted)))
    ELSE <<>>

\* ResultPage: topDetections of the App's detectionResults
topDetections == topDetectionsOf(detectionResults)

\* what ResultPage renders in its results section
ResultView == IF hasDetections THEN "tileCards" ELSE "noDetections"

\* ResultPage renders its Find Similar Tiles button
FindSimilarShown == currentPage = "result" /\ hasDetections

\* the mutant: the loader of RecommendationPage left out, so that the page's
\* buttons stay on screen while the service call is outstanding
RecActionsShownNoLoader ==
    currentPage = "recommendation" /\ selectedTileForRecommendation # NoTile

\* the mutant: the view for a missing reference tile left out, so that the
\* page's buttons are on screen without a tile
RecActionsShownWithoutTile == currentPage = "recommendation" /\ ~recIsLoading

\* RecommendationPage renders its Back / Upload New Image buttons
RecActionsShown ==
    /\ currentPage = "recommendation"
    /\ selectedTileForRecommendation # NoTile
    /\ ~recIsLoading

\* the mutant: hasFetchedRef outlives the page
RecPageUnmountedKeepsRef ==
    /\ recIsLoading' = FALSE
    /\ recommendations' = NoRecommendations
    /\ recError' = NoError
    /\ hasFetchedRef' = hasFetchedRef
    /\ effectRuns' = 0
    /\ recIssued' = 0
    /\ recommendCalls' = [i \in 1..Len(recommendCalls) |->
                            [recommendCalls[i] EXCEPT !.stale = TRUE]]

\* the state of a RecommendationPage that is not mounted
RecPageUnmounted ==
    /\ recIsLoading' = FALSE
    /\ recommendations' = NoRecommendations
    /\ recError' = NoError
    /\ hasFetchedRef' = FALSE
    /\ effectRuns' = 0
    /\ recIssued' = 0
    /\ recommendCalls' = [i \in 1..Len(recommendCalls) |->
                            [recommendCalls[i] EXCEPT !.stale = TRUE]]

\* the state of an UploadPage (and its ImageUploader) that is not mounted
UploadPageUnmounted ==
    /\ isProcessing' = FALSE
    /\ uploadError' = NoError
    /\ showCamera' = FALSE
    /\ uploaderError' = NoError

(***************************************************************************)
(* App.                                                                    *)
(***************************************************************************)
\* App.handleImageUpload
handleImageUpload(file) ==
    /\ CanCreateUrl
    /\ uploadedImage' = file
    /\ imagePreview' = FreshUrl
    /\ appUrls' = appUrls \cup {FreshUrl}
    /\ sinceReset' = sinceReset \cup {FreshUrl}
    /\ UNCHANGED <<currentPage, detectionResults, selectedTileForRecommendation>>

\* the mutant: the results of the call not stored
handleDetectionCompleteDropsResults(results) ==
    /\ detectionResults' = NoResults
    /\ currentPage' = "result"
    /\ UNCHANGED <<uploadedImage, imagePreview, selectedTileForRecommendation>>

\* App.handleDetectionComplete
handleDetectionComplete(results) ==
    /\ detectionResults' = results
    /\ currentPage' = "result"
    /\ UNCHANGED <<uploadedImage, imagePreview, selectedTileForRecommendation>>

\* the mutant: the detection results left in place
handleResetKeepsResults ==
    /\ \/ currentPage = "result"
       \/ RecActionsShown
    /\ appUrls' = appUrls \ {imagePreview}
    /\ sinceReset' = {}
    /\ uploadedImage' = NoFile
    /\ imagePreview' = NoUrl
    /\ selectedTileForRecommendation' = NoTile
    /\ currentPage' = "upload"
    /\ heldPassedGate' = FALSE
    /\ RecPageUnmounted
    /\ UNCHANGED <<camVars, detectionResults, uploadPageVars, uploaderError, detectCalls, camUrls>>

\* App.handleReset, from ResultPage's and RecommendationPage's reset buttons
handleReset ==
    /\ \/ currentPage = "result"
       \/ RecActionsShown
    /\ appUrls' = appUrls \ {imagePreview}
    /\ sinceReset' = {}
    /\ uploadedImage' = NoFile
    /\ imagePreview' = NoUrl
    /\ detectionResults' = NoResults
    /\ selectedTileForRecommendation' = NoTile
    /\ currentPage' = "upload"
    /\ heldPassedGate' = FALSE
    /\ RecPageUnmounted
    /\ UNCHANGED <<camVars, uploadPageVars, uploaderError, detectCalls, camUrls>>

(***************************************************************************)
(* ImageUploader.                                                          *)
(***************************************************************************)
\* the mutant: a rejected file handed to onImageSelect all the same
handleFileStoresRejected(file) ==
    /\ uploaderError' = validateFile(file)
    /\ handleImageUpload(file)
    /\ heldPassedGate' = (validateFile(file) = NoError)
    /\ UNCHANGED <<camVars, uploadPageVars, recPageVars, detectCalls, recommendCalls,
                   camUrls, effectRuns, recIssued>>

\* ImageUploader.handleFile
handleFile(file) ==
    LET validationError == validateFile(file) IN
    IF validationError # NoError
    THEN /\ uploaderError' = validationError
         /\ UNCHANGED <<camVars, appVars, uploadPageVars, recPageVars, detectCalls,
                        recommendCalls, urlVars, heldPassedGate, effectRuns, recIssued>>
    ELSE /\ uploaderError' = NoError
         /\ handleImageUpload(file)
         /\ heldPassedGate' = TRUE
         /\ UNCHANGED <<camVars, uploadPageVars, recPageVars, detectCalls, recommendCalls,
                        camUrls, effectRuns, recIssued>>

\* ImageUploader.handleFileChange: a file chosen in the file picker
handleFileChange ==
    /\ UploadFormShown
    /\ \E file \in PickFiles : handleFile(file)

\* ImageUploader.handleDrop: a file dropped on the upload zone
handleDrop ==
    /\ UploadFormShown
    /\ \E file \in PickFiles : handleFile(file)

(***************************************************************************)
(* CameraCapture.                                                          *)
(***************************************************************************)
\* camera streams that may be active at once, and callbacks that may be owed
\* to unmounted instances
MaxStreams == 2

MaxOrphans == 1

MaxToBlob == 2

MsgUnsupported == "Camera is not supported in this browser. Please use a modern browser or upload a file instead."

MsgPermission == "Camera permission was denied. Please allow camera access in your browser settings and try again."

MsgNoDevice == "No camera found on this device. Please connect a camera or upload a file instead."

MsgBusy == "Camera is in use by another application. Please close other apps using the camera and try again."

MsgUnable == "Unable to access camera. Please try again or upload a file instead."

\* err.name of a rejected getUserMedia
GumErrorNames == {"NotAllowedError", "PermissionDeniedError", "NotFoundError",
                  "DevicesNotFoundError", "NotReadableError", "TrackStartError",
                  "OverconstrainedError", "AbortError"}

\* initCamera's catch block: the message for an error name
cameraErrorMessage(name) ==
    IF name \in {"NotAllowedError", "PermissionDeniedError"} THEN MsgPermission
    ELSE IF name \in {"NotFoundError", "DevicesNotFoundError"} THEN MsgNoDevice
    ELSE IF name \in {"NotReadableError", "TrackStartError"} THEN MsgBusy
    ELSE MsgUnable

\* the File capturePhoto builds: always image/jpeg, of the size the encoder gives
CameraSizes == {900 * 1024, 12 * 1024 * 1024}

CameraFiles == [type : {"image/jpeg"}, size : CameraSizes]

activeStreams == leakedStreams + (IF streamRef THEN 1 ELSE 0)

camEnvOther == <<mediaDevices, leakedStreams>>

\* the mutant: the action buttons rendered whatever the error
CameraActionsShownDespiteError ==
    /\ currentPage = "upload" /\ ~isProcessing /\ showCamera
    /\ ~camIsLoading

\* the action buttons of CameraCapture are rendered
CameraActionsShown ==
    /\ currentPage = "upload" /\ ~isProcessing /\ showCamera
    /\ ~camIsLoading
    /\ camError = NoError

\* the stream of the mounted instance: whether streamRef.current holds it and
\* the times its tracks were stopped
theStream == [ref |-> streamRef, stops |-> trackStops]

\* the mutant: the test and the reset of streamRef.current left out
stopCameraUnguarded(stream) == [ref |-> stream.ref, stops |-> stream.stops + 1]

\* CameraCapture.stopCamera
stopCamera(stream) ==
    IF stream.ref
    THEN [ref |-> FALSE, stops |-> stream.stops + 1]
    ELSE stream

\* CameraCapture leaves the screen with its stream as `stream`: the effect's
\* cleanup runs (stopCamera, and the capturedImage of the first render, which
\* is null, is not revoked), the state is dropped and the callbacks still owed
\* become orphans
CameraUnmountedWith(stream) ==
    /\ camIsLoading' = TRUE
    /\ camError' = NoError
    /\ isCaptured' = FALSE
    /\ capturedImage' = NoUrl
    /\ streamRef' = FALSE
    /\ trackStops' = stopCamera(stream).stops
    /\ capturedFile' = NoFile
    /\ stillFile' = NoFile
    /\ gumPending' = FALSE
    /\ metaPending' = FALSE
    /\ toBlobPending' = 0
    /\ orphanGum' = orphanGum + (IF gumPending THEN 1 ELSE 0)
    /\ orphanToBlob' = orphanToBlob + toBlobPending

\* CameraCapture leaves the screen without a handler of its own having run
CameraUnmounted == CameraUnmountedWith(theStream)

\* UploadPage's camera button: CameraCapture mounts and initCamera runs up to
\* its await
openCamera ==
    /\ UploadFormShown
    /\ orphanGum < MaxOrphans
    /\ showCamera' = TRUE
    /\ uploaderError' = NoError
    /\ IF mediaDevices
       THEN /\ gumPending' = TRUE
            /\ UNCHANGED <<camIsLoading, camError>>
       ELSE /\ camError' = MsgUnsupported
            /\ camIsLoading' = FALSE
            /\ UNCHANGED gumPending
    /\ UNCHANGED <<appVars, isProcessing, uploadError, recPageVars, detectCalls,
                   recommendCalls, urlVars, heldPassedGate, effectRuns, recIssued,
                   isCaptured, capturedImage, streamRef, capturedFile, metaPending,
                   toBlobPending, trackStops, stillFile, camEnvVars>>

\* getUserMedia resolves for the mounted instance
GumResolve ==
    /\ showCamera /\ gumPending
    /\ activeStreams < MaxStreams
    /\ gumPending' = FALSE
    /\ streamRef' = TRUE
    /\ trackStops' = 0
    /\ metaPending' = TRUE
    /\ UNCHANGED <<appVars, uploadPageVars, uploaderError, recPageVars, detectCalls,
                   recommendCalls, urlVars, heldPassedGate, effectRuns, recIssued,
                   camIsLoading, camError, isCaptured, capturedImage, capturedFile,
                   toBlobPending, stillFile, camEnvVars>>

\* getUserMedia rejects for the mounted instance
GumReject ==
    /\ showCamera /\ gumPending
    /\ \E name \in GumErrorNames : camError' = cameraErrorMessage(name)
    /\ camIsLoading' = FALSE
    /\ gumPending' = FALSE
    /\ UNCHANGED <<appVars, uploadPageVars, uploaderError, recPageVars, detectCalls,
                   recommendCalls, urlVars, heldPassedGate, effectRuns, recIssued,
                   isCaptured, capturedImage, streamRef, capturedFile, metaPending,
                   toBlobPending, trackStops, stillFile, camEnvVars>>

\* getUserMedia settles for an instance that is unmounted: a stream it resolves
\* with is stored in that instance's streamRef, which nothing reads again
GumSettleOrphan ==
    /\ orphanGum > 0
    /\ orphanGum' = orphanGum - 1
    /\ \/ activeStreams < MaxStreams /\ leakedStreams' = leakedStreams + 1
       \/ UNCHANGED leakedStreams
    /\ UNCHANGED <<appVars, uploadPageVars, uploaderError, recPageVars, detectCalls,
                   recommendCalls, urlVars, heldPassedGate, effectRuns, recIssued,
                   camStateVars, mediaDevices, orphanToBlob>>

\* the video's onloadedmetadata
LoadedMetadata ==
    /\ showCamera /\ metaPending
    /\ metaPending' = FALSE
    /\ camIsLoading' = FALSE
    /\ UNCHANGED <<appVars, uploadPageVars, uploaderError, recPageVars, detectCalls,
                   recommendCalls, urlVars, heldPassedGate, effectRuns, recIssued,
                   camError, isCaptured, capturedImage, streamRef, capturedFile,
                   gumPending, toBlobPending, trackStops, stillFile, camEnvVars>>

\* CameraCapture.capturePhoto up to canvas.toBlob
capturePhoto ==
    /\ CameraActionsShown /\ ~isCaptured
    /\ toBlobPending + orphanToBlob < MaxToBlob
    /\ toBlobPending' = toBlobPending + 1
    /\ UNCHANGED <<appVars, uploadPageVars, uploaderError, recPageVars, detectCalls,
                   recommendCalls, urlVars, heldPassedGate, effectRuns, recIssued,
                   camIsLoading, camError, isCaptured, capturedImage, streamRef,
                   capturedFile, gumPending, metaPending, trackStops, stillFile,
                   camEnvVars>>

\* the mutant: the file of the first capture is kept on the canvas
ToBlobCallbackKeepsFirstFile ==
    /\ showCamera /\ toBlobPending > 0
    /\ toBlobPending' = toBlobPending - 1
    /\ \E file \in CameraFiles \cup {NoFile} :
          IF file # NoFile
          THEN /\ CanCreateUrl
               /\ camUrls' = camUrls \cup {FreshUrl}
               /\ capturedImage' = FreshUrl
               /\ isCaptured' = TRUE
               /\ capturedFile' = IF capturedFile = NoFile THEN file ELSE capturedFile
               /\ stillFile' = file
          ELSE UNCHANGED <<camUrls, capturedImage, isCaptured, capturedFile, stillFile>>
    /\ UNCHANGED <<appVars, uploadPageVars, uploaderError, recPageVars, detectCalls,
                   recommendCalls, appUrls, sinceReset, heldPassedGate, effectRuns,
                   recIssued, camIsLoading, camError, streamRef, gumPending,
                   metaPending, trackStops, camEnvVars>>

\* canvas.toBlob's callback for the mounted instance; NoFile is a null blob
ToBlobCallback ==
    /\ showCamera /\ toBlobPending > 0
    /\ toBlobPending' = toBlobPending - 1
    /\ \E file \in CameraFiles \cup {NoFile} :
          IF file # NoFile
          THEN /\ CanCreateUrl
               /\ camUrls' = camUrls \cup {FreshUrl}
               /\ capturedImage' = FreshUrl
               /\ isCaptured' = TRUE
               /\ capturedFile' = file
               /\ stillFile' = file
          ELSE UNCHANGED <<camUrls, capturedImage, isCaptured, capturedFile, stillFile>>
    /\ UNCHANGED <<appVars, uploadPageVars, uploaderError, recPageVars, detectCalls,
                   recommendCalls, appUrls, sinceReset, heldPassedGate, effectRuns,
                   recIssued, camIsLoading, camError, streamRef, gumPending,
                   metaPending, trackStops, camEnvVars>>

\* canvas.toBlob's callback for an instance that is unmounted: the URL is
\* created, the state setters do nothing and canvasRef.current is null
ToBlobCallbackOrphan ==
    /\ orphanToBlob > 0
    /\ orphanToBlob' = orphanToBlob - 1
    /\ \E file \in CameraFiles \cup {NoFile} :
          IF file # NoFile
          THEN CanCreateUrl /\ camUrls' = camUrls \cup {FreshUrl}
          ELSE UNCHANGED camUrls
    /\ UNCHANGED <<appVars, uploadPageVars, uploaderError, recPageVars, detectCalls,
                   recommendCalls, appUrls, sinceReset, heldPassedGate, effectRuns,
                   recIssued, camStateVars, mediaDevices, orphanGum, leakedStreams>>

\* the mutant: the still is dropped and its URL is not revoked
retakePhotoKeepsUrl ==
    /\ CameraActionsShown /\ isCaptured
    /\ capturedImage' = NoUrl
    /\ stillFile' = NoFile
    /\ isCaptured' = FALSE
    /\ UNCHANGED <<appVars, uploadPageVars, uploaderError, recPageVars, detectCalls,
                   recommendCalls, urlVars, heldPassedGate, effectRuns,
                   recIssued, camIsLoading, camError, streamRef, capturedFile,
                   gumPending, metaPending, toBlobPending, trackStops, camEnvVars>>

\* CameraCapture.retakePhoto
retakePhoto ==
    /\ CameraActionsShown /\ isCaptured
    /\ camUrls' = camUrls \ {capturedImage}
    /\ capturedImage' = NoUrl
    /\ stillFile' = NoFile
    /\ isCaptured' = FALSE
    /\ UNCHANGED <<appVars, uploadPageVars, uploaderError, recPageVars, detectCalls,
                   recommendCalls, appUrls, sinceReset, heldPassedGate, effectRuns,
                   recIssued, camIsLoading, camError, streamRef, capturedFile,
                   gumPending, metaPending, toBlobPending, trackStops, camEnvVars>>

\* CameraCapture.confirmCapture, UploadPage.handleCameraCapture and
\* App.handleImageUpload; CameraCapture is unmounted
confirmCapture ==
    /\ CameraActionsShown /\ isCaptured
    /\ capturedFile # NoFile
    /\ showCamera' = FALSE
    /\ handleImageUpload(capturedFile)
    /\ heldPassedGate' = FALSE
    /\ CameraUnmountedWith(stopCamera(theStream))
    /\ UNCHANGED <<isProcessing, uploadError, uploaderError, recPageVars, detectCalls,
                   recommendCalls, camUrls, effectRuns, recIssued, camEnvOther>>

\* CameraCapture.handleClose and UploadPage.handleCameraClose; CameraCapture is
\* unmounted
handleClose ==
    /\ currentPage = "upload" /\ ~isProcessing /\ showCamera
    /\ camUrls' = camUrls \ {capturedImage}
    /\ showCamera' = FALSE
    /\ CameraUnmountedWith(stopCamera(theStream))
    /\ UNCHANGED <<appVars, isProcessing, uploadError, uploaderError, recPageVars,
                   detectCalls, recommendCalls, appUrls, sinceReset, heldPassedGate,
                   effectRuns, recIssued, camEnvOther>>

(***************************************************************************)
(* UploadPage.                                                             *)
(***************************************************************************)
RemoveAt(seq, i) == SubSeq(seq, 1, i - 1) \o SubSeq(seq, i + 1, Len(seq))

\* the mutant: the processing flag (and with it the loader) left out
handleDetectNoLoader ==
    /\ UploadFormShown
    /\ uploadedImage # NoFile
    /\ Len(detectCalls) < MaxPending
    /\ uploadError' = NoError
    /\ detectCalls' = Append(detectCalls, [arg |-> uploadedImage, stale |-> FALSE])
    /\ UNCHANGED <<camVars, appVars, isProcessing, showCamera, uploaderError, recPageVars,
                   recommendCalls, urlVars, heldPassedGate, effectRuns, recIssued>>

\* the mutant: the test of uploadedImage left out
handleDetectNoGuard ==
    /\ UploadFormShown
    /\ Len(detectCalls) < MaxPending
    /\ uploadError' = NoError
    /\ isProcessing' = TRUE
    /\ detectCalls' = Append(detectCalls, [arg |-> uploadedImage, stale |-> FALSE])
    /\ uploaderError' = NoError
    /\ UNCHANGED <<camVars, appVars, showCamera, recPageVars, recommendCalls, urlVars,
                   heldPassedGate, effectRuns, recIssued>>

\* UploadPage.handleDetect up to its await
handleDetect ==
    /\ UploadFormShown
    /\ IF uploadedImage = NoFile
       THEN /\ uploadError' = MsgSelectImage
            /\ UNCHANGED <<camVars, appVars, isProcessing, showCamera, uploaderError, recPageVars,
                           detectCalls, recommendCalls, urlVars, heldPassedGate,
                           effectRuns, recIssued>>
       ELSE /\ Len(detectCalls) < MaxPending
            /\ uploadError' = NoError
            /\ isProcessing' = TRUE
            /\ detectCalls' = Append(detectCalls, [arg |-> uploadedImage, stale |-> FALSE])
            \* the loader replaces the form: the ImageUploader is unmounted
            /\ uploaderError' = NoError
            /\ UNCHANGED <<camVars, appVars, showCamera, recPageVars, recommendCalls, urlVars,
                           heldPassedGate, effectRuns, recIssued>>

\* the Detect Tile button carries disabled={!uploadedImage}
detectButtonDisabled == uploadedImage = NoFile

\* a click on the Detect Tile button
clickDetect == ~detectButtonDisabled /\ handleDetect

\* the Detect Tile button is on screen and can be clicked
DetectOffered == UploadFormShown /\ ~detectButtonDisabled

\* the mutant: the finally block left out, so that the loader stays
DetectFailNoFinally ==
    \E i \in 1..Len(detectCalls) :
        /\ detectCalls' = RemoveAt(detectCalls, i)
        /\ IF detectCalls[i].stale
           THEN UNCHANGED uploadError
           ELSE uploadError' = MsgDetectFailed
        /\ UNCHANGED <<camVars, appVars, isProcessing, showCamera, uploaderError,
                       recPageVars, recommendCalls, urlVars, heldPassedGate,
                       effectRuns, recIssued>>

\* detectTile rejects and handleDetect resumes in its catch and finally blocks
DetectFail ==
    \E i \in 1..Len(detectCalls) :
        /\ detectCalls' = RemoveAt(detectCalls, i)
        /\ IF detectCalls[i].stale
           \* state set on a page that is no longer mounted
           THEN UNCHANGED <<uploadError, isProcessing>>
           ELSE /\ uploadError' = MsgDetectFailed
                /\ isProcessing' = FALSE
        /\ UNCHANGED <<camVars, appVars, showCamera, uploaderError, recPageVars,
                       recommendCalls, urlVars, heldPassedGate, effectRuns, recIssued>>

\* detectTile's timer fires and handleDetect resumes after its await
DetectSettle ==
    \E i \in 1..Len(detectCalls), d \in DetectDraws :
        \* UploadPage is unmounted: what is still owed to it is stale
        /\ detectCalls' = [j \in 1..(Len(detectCalls) - 1) |->
                              [RemoveAt(detectCalls, i)[j] EXCEPT !.stale = TRUE]]
        /\ handleDetectionComplete(generateMockDetections(d))
        /\ UploadPageUnmounted
        /\ IF currentPage = "recommendation"
           THEN RecPageUnmounted
           ELSE UNCHANGED <<recPageVars, recommendCalls, effectRuns, recIssued>>
        /\ IF showCamera
           THEN CameraUnmounted /\ UNCHANGED camEnvOther
           ELSE UNCHANGED camVars
        /\ UNCHANGED <<urlVars, heldPassedGate>>

(***************************************************************************)
(* RecommendationPage.                                                     *)
(***************************************************************************)
\* the mutant: the hasFetchedRef test left out
useEffectNoGuard(referenceTile) ==
    /\ effectRuns' = effectRuns + 1
    /\ Len(recommendCalls) < MaxPending
    /\ hasFetchedRef' = TRUE
    /\ recIsLoading' = TRUE
    /\ recError' = NoError
    /\ recommendCalls' = Append(recommendCalls, [arg |-> referenceTile, stale |-> FALSE])
    /\ recIssued' = recIssued + 1
    /\ UNCHANGED recommendations

\* RecommendationPage's effect, up to the await of fetchRecommendations
useEffect(referenceTile) ==
    /\ effectRuns' = effectRuns + 1
    /\ IF referenceTile = NoTile
       THEN /\ recError' = MsgNoReference
            /\ UNCHANGED <<recIsLoading, recommendations, hasFetchedRef, recommendCalls,
                           recIssued>>
       ELSE IF hasFetchedRef
       THEN UNCHANGED <<recPageVars, recommendCalls, recIssued>>
       ELSE /\ hasFetchedRef' = TRUE
            /\ UNCHANGED recommendations
            /\ IF referenceTile.id = 0
               \* getTileRecommendations throws: caught before any other event
               THEN /\ recError' = MsgRecommendFailed
                    /\ recIsLoading' = FALSE
                    /\ UNCHANGED <<recommendCalls, recIssued>>
               ELSE /\ Len(recommendCalls) < MaxPending
                    /\ recIsLoading' = TRUE
                    /\ recError' = NoError
                    /\ recommendCalls' =
                           Append(recommendCalls, [arg |-> referenceTile, stale |-> FALSE])
                    /\ recIssued' = recIssued + 1

\* the effect run again for the same entry (React StrictMode)
EffectRerun ==
    /\ currentPage = "recommendation"
    /\ effectRuns < MaxEffectRuns
    /\ useEffect(selectedTileForRecommendation)
    /\ UNCHANGED <<camVars, appVars, uploadPageVars, uploaderError, detectCalls, urlVars,
                   heldPassedGate>>

\* getTileRecommendations' timer fires and fetchRecommendations resumes
RecommendSettle ==
    \E i \in 1..Len(recommendCalls), d \in RecommendDraws :
        LET call == recommendCalls[i]
            results == generateMockRecommendations(call.arg, d)
        IN /\ recommendCalls' = RemoveAt(recommendCalls, i)
           /\ IF call.stale
              \* state set on a page that is no longer mounted
              THEN UNCHANGED <<recIsLoading, recommendations>>
              ELSE /\ recommendations' = results
                   /\ recIsLoading' = FALSE
           /\ UNCHANGED <<camVars, appVars, uploadPageVars, uploaderError, recError, hasFetchedRef,
                          detectCalls, urlVars, heldPassedGate, effectRuns, recIssued>>

\* the mutant: the finally block left out, so that the loader stays
RecommendFailNoFinally ==
    \E i \in 1..Len(recommendCalls) :
        /\ recommendCalls' = RemoveAt(recommendCalls, i)
        /\ IF recommendCalls[i].stale
           THEN UNCHANGED recError
           ELSE recError' = MsgRecommendFailed
        /\ UNCHANGED <<camVars, appVars, uploadPageVars, uploaderError, recommendations,
                       recIsLoading, hasFetchedRef, detectCalls, urlVars, heldPassedGate,
                       effectRuns, recIssued>>

\* getTileRecommendations rejects and fetchRecommendations resumes in its catch
\* and finally blocks
RecommendFail ==
    \E i \in 1..Len(recommendCalls) :
        /\ recommendCalls' = RemoveAt(recommendCalls, i)
        /\ IF recommendCalls[i].stale
           \* state set on a page that is no longer mounted
           THEN UNCHANGED <<recIsLoading, recError>>
           ELSE /\ recError' = MsgRecommendFailed
                /\ recIsLoading' = FALSE
        /\ UNCHANGED <<camVars, appVars, uploadPageVars, uploaderError, recommendations,
                       hasFetchedRef, detectCalls, urlVars, heldPassedGate, effectRuns,
                       recIssued>>

\* the mutant: an empty recommendation set shown as the error view
RecViewEmptyAsError ==
    IF selectedTileForRecommendation = NoTile THEN "noTileSelected"
    ELSE IF recIsLoading THEN "loader"
    ELSE IF recError # NoError \/ recommendations.items = <<>> THEN "error"
    ELSE "cards"

\* what RecommendationPage renders
RecView ==
    IF selectedTileForRecommendation = NoTile THEN "noTileSelected"
    ELSE IF recIsLoading THEN "loader"
    ELSE IF recError # NoError THEN "error"
    ELSE IF ~recommendations.isNull /\ Len(recommendations.items) > 0 THEN "cards"
    ELSE "noRecommendations"

\* the Try Again button of the error view is on screen
RetryShown == currentPage = "recommendation" /\ RecView = "error"

\* the Try Again button: window.location.reload().  The document is replaced:
\* the App starts again from its initial state, the object URLs and the camera
\* streams of the old document are released and its timers never fire.
reload ==
    /\ RetryShown
    /\ currentPage' = "upload"
    /\ uploadedImage' = NoFile
    /\ imagePreview' = NoUrl
    /\ detectionResults' = NoResults
    /\ selectedTileForRecommendation' = NoTile
    /\ UploadPageUnmounted
    /\ recIsLoading' = FALSE
    /\ recommendations' = NoRecommendations
    /\ recError' = NoError
    /\ hasFetchedRef' = FALSE
    /\ effectRuns' = 0
    /\ recIssued' = 0
    /\ detectCalls' = <<>>
    /\ recommendCalls' = <<>>
    /\ appUrls' = {}
    /\ camUrls' = {}
    /\ sinceReset' = {}
    /\ heldPassedGate' = FALSE
    /\ camIsLoading' = TRUE
    /\ camError' = NoError
    /\ isCaptured' = FALSE
    /\ capturedImage' = NoUrl
    /\ streamRef' = FALSE
    /\ capturedFile' = NoFile
    /\ trackStops' = 0
    /\ stillFile' = NoFile
    /\ gumPending' = FALSE
    /\ metaPending' = FALSE
    /\ toBlobPending' = 0
    /\ orphanGum' = 0
    /\ orphanToBlob' = 0
    /\ leakedStreams' = 0
    /\ UNCHANGED mediaDevices

\* the mutant: no back button in the no-tile view
handleBackToResultsNeedsTile ==
    /\ RecActionsShown
    /\ selectedTileForRecommendation' = NoTile
    /\ currentPage' = "result"
    /\ RecPageUnmounted
    /\ UNCHANGED <<camVars, uploadedImage, imagePreview, detectionResults, uploadPageVars,
                   uploaderError, detectCalls, urlVars, heldPassedGate>>

\* the mutant: the reference tile left in place
handleBackToResultsKeepsTile ==
    /\ \/ RecActionsShown
       \/ currentPage = "recommendation" /\ selectedTileForRecommendation = NoTile
    /\ currentPage' = "result"
    /\ RecPageUnmounted
    /\ UNCHANGED <<camVars, uploadedImage, imagePreview, detectionResults,
                   selectedTileForRecommendation, uploadPageVars, uploaderError,
                   detectCalls, urlVars, heldPassedGate>>

\* App.handleBackToResults, from RecommendationPage's back buttons
handleBackToResults ==
    /\ \/ RecActionsShown
       \/ currentPage = "recommendation" /\ selectedTileForRecommendation = NoTile
    /\ selectedTileForRecommendation' = NoTile
    /\ currentPage' = "result"
    /\ RecPageUnmounted
    /\ UNCHANGED <<camVars, uploadedImage, imagePreview, detectionResults, uploadPageVars,
                   uploaderError, detectCalls, urlVars, heldPassedGate>>

(***************************************************************************)
(* ResultPage.                                                             *)
(***************************************************************************)
\* the mutant: onFindSimilar called without a tile
handleFindSimilarPassesNoTile ==
    /\ currentPage = "result"
    /\ hasDetections
    /\ selectedTileForRecommendation' = NoTile
    /\ currentPage' = "recommendation"
    /\ useEffect(NoTile)
    /\ UNCHANGED <<camVars, uploadedImage, imagePreview, detectionResults, uploadPageVars,
                   uploaderError, detectCalls, urlVars, heldPassedGate>>

\* the mutant: the last of topDetections passed on instead of the first
handleFindSimilarLast ==
    /\ currentPage = "result"
    /\ hasDetections
    /\ Len(topDetections) > 0
    /\ selectedTileForRecommendation' = topDetections[Len(topDetections)]
    /\ currentPage' = "recommendation"
    /\ useEffect(topDetections[Len(topDetections)])
    /\ UNCHANGED <<camVars, uploadedImage, imagePreview, detectionResults, uploadPageVars,
                   uploaderError, detectCalls, urlVars, heldPassedGate>>

\* ResultPage.handleFindSimilar and App.handleFindSimilar; RecommendationPage
\* mounts and its effect runs
handleFindSimilar ==
    /\ currentPage = "result"
    /\ hasDetections
    /\ Len(topDetections) > 0
    /\ selectedTileForRecommendation' = topDetections[1]
    /\ currentPage' = "recommendation"
    /\ useEffect(topDetections[1])
    /\ UNCHANGED <<camVars, uploadedImage, imagePreview, detectionResults, uploadPageVars,
                   uploaderError, detectCalls, urlVars, heldPassedGate>>

\* App.handleFindSimilar called with no tile (ResultPage.handleFindSimilar
\* never does so); RecommendationPage mounts and its effect runs
handleFindSimilarWithoutTile ==
    /\ currentPage = "result"
    /\ selectedTileForRecommendation' = NoTile
    /\ currentPage' = "recommendation"
    /\ useEffect(NoTile)
    /\ UNCHANGED <<camVars, uploadedImage, imagePreview, detectionResults, uploadPageVars,
                   uploaderError, detectCalls, urlVars, heldPassedGate>>

(***************************************************************************)
(* The workflow.                                                           *)
(***************************************************************************)
\* a step of handler `name`: the functions checked on their own stay idle
Took(name) == lastStep' = name /\ UNCHANGED pureVars

Workflow ==
    \/ handleFileChange /\ Took("other")
    \/ handleDrop /\ Took("other")
    \/ clickDetect /\ Took("other")
    \/ DetectSettle /\ Took("detectTile")
    \/ handleFindSimilar /\ Took("other")
    \/ EffectRerun /\ Took("other")
    \/ RecommendSettle /\ Took("getTileRecommendations")
    \/ handleBackToResults /\ Took("handleBackToResults")
    \/ handleReset /\ Took("other")
    \/ openCamera /\ Took("other")
    \/ GumResolve /\ Took("other")
    \/ GumReject /\ Took("other")
    \/ GumSettleOrphan /\ Took("other")
    \/ LoadedMetadata /\ Took("other")
    \/ capturePhoto /\ Took("other")
    \/ ToBlobCallback /\ Took("other")
    \/ ToBlobCallbackOrphan /\ Took("other")
    \/ retakePhoto /\ Took("retakePhoto")
    \/ confirmCapture /\ Took("confirmCapture")
    \/ handleClose /\ Took("handleClose")

Next == Workflow

Spec == Init /\ [][Next]_vars

(***************************************************************************)
(* The workflow with handlers also called directly, as the operations they *)
(* are: handleDetect whatever the state of the button in front of it, and  *)
(* App.handleFindSimilar with no tile.                                     *)
(***************************************************************************)
NextDirect ==
    \/ Workflow
    \/ handleDetect /\ Took("other")
    \/ handleFindSimilarWithoutTile /\ Took("other")

SpecDirect == Init /\ [][NextDirect]_vars

(***************************************************************************)
(* The workflow with services that may reject, as the HTTP services the    *)
(* mocks stand for do; the mocks themselves never reject.                  *)
(***************************************************************************)
NextFailure ==
    \/ Workflow
    \/ DetectFail /\ Took("detectTile rejected")
    \/ RecommendFail /\ Took("getTileRecommendations rejected")
    \/ reload /\ Took("reload")

SpecFailure == Init /\ [][NextFailure]_vars

(***************************************************************************)
(* The workflow with services that may reject and whose timers fire: the   *)
(* setTimeout of a pending detectTile or getTileRecommendations runs, and  *)
(* the promise settles one way or the other.                               *)
(***************************************************************************)
detectTimerFires ==
    \/ DetectFail /\ Took("detectTile rejected")
    \/ DetectSettle /\ Took("detectTile")

recommendTimerFires ==
    \/ RecommendFail /\ Took("getTileRecommendations rejected")
    \/ RecommendSettle /\ Took("getTileRecommendations")

SpecTimers ==
    /\ Init /\ [][NextFailure]_vars
    /\ WF_vars(detectTimerFires)
    /\ WF_vars(recommendTimerFires)

(***************************************************************************)
(* The workflow with the handlers called directly and with services that   *)
(* may reject: every error view of the application can be reached.         *)
(***************************************************************************)
NextAll ==
    \/ Workflow
    \/ handleDetect /\ Took("other")
    \/ handleFindSimilarWithoutTile /\ Took("other")
    \/ DetectFail /\ Took("detectTile rejected")
    \/ RecommendFail /\ Took("getTileRecommendations rejected")
    \/ reload /\ Took("reload")

SpecAll == Init /\ [][NextAll]_vars

(***************************************************************************)
(* The validation gate on its own: validateFile applied to any file.       *)
(***************************************************************************)
InitValidate ==
    /\ InitWorkflow
    /\ vFile \in AllFiles \cup {NoFile}
    /\ vResult = "pending"
    /\ svcInput = NoCall
    /\ svcOutput = NotCalled

Validate ==
    /\ vResult = "pending"
    /\ vResult' = validateFile(vFile)
    /\ UNCHANGED <<vFile, svcInput, svcOutput, workflowVars>>

SpecValidate == InitValidate /\ [][Validate]_vars


(***************************************************************************)
(* The two services on their own: detectTile and getTileRecommendations    *)
(* called once, for any outcome of the random draws in a sample of them.   *)
(***************************************************************************)
\* Math.pow(Math.random(), k), in units of 1 / Resolution
ServiceWeights == {0, 163, 500, 837, Resolution - 1}

ServiceDetectDraws ==
    [empty : BOOLEAN, num : 3..5, weights : [1..3 -> ServiceWeights]]

\* the weighted draws of the items of one recommendation, by position: all
\* equal, rising, falling, scattered, and in equal pairs
ServiceWeightRuns ==
    {[i \in 1..8 |-> 500],
     [i \in 1..8 |-> (i * 100) % Resolution],
     [i \in 1..8 |-> ((9 - i) * 100) % Resolution],
     [i \in 1..8 |-> (i * 137) % Resolution],
     [i \in 1..8 |-> ((i \div 2) * 211) % Resolution]}

ServiceRecommendDraws ==
    [empty : BOOLEAN, num : 5..8, shuffle : 0..7, weight : ServiceWeightRuns]

\* JS undefined for the id of a tile that carries none
NoId == -1

\* the tiles getTileRecommendations is called with: none, one without an id,
\* one whose id is 0, detections, and tiles whose id is in
\* MOCK_RECOMMENDATION_TILES
ServiceTiles ==
    {NoTile} \cup [id : {NoId, 0, 2, 101, 104, 108}, confidence : {910}]

\* every value of Math.pow(Math.random(), k), in units of 1 / Resolution
AllWeights == 0..(Resolution - 1)

ServiceCalls ==
    [kind : {"detect"}, d : ServiceDetectDraws]
    \cup [kind : {"recommend"}, tile : ServiceTiles, d : ServiceRecommendDraws]
    \cup [kind : {"confidence", "similarity"}, w : AllWeights]

InitServices ==
    /\ InitWorkflow
    /\ vFile = NoFile
    /\ vResult = "idle"
    /\ svcInput \in ServiceCalls
    /\ svcOutput = [status |-> "pending"]

\* detectTile: the promise's timer fires
detectTile ==
    /\ svcInput.kind = "detect" /\ svcOutput.status = "pending"
    /\ svcOutput' = [status |-> "resolved",
                     value |-> generateMockDetections(svcInput.d).detections]
    /\ UNCHANGED <<vFile, vResult, svcInput, workflowVars>>

\* getTileRecommendations: the input test, then the promise's timer fires
getTileRecommendations ==
    /\ svcInput.kind = "recommend" /\ svcOutput.status = "pending"
    \* !referenceTile || !referenceTile.id: undefined and 0 are both falsy
    /\ IF svcInput.tile = NoTile \/ svcInput.tile.id = NoId \/ svcInput.tile.id = 0
       THEN svcOutput' = [status |-> "rejected"]
       ELSE svcOutput' =
                [status |-> "resolved",
                 value |-> generateMockRecommendations(svcInput.tile, svcInput.d).items]
    /\ UNCHANGED <<vFile, vResult, svcInput, workflowVars>>

\* generateConfidence called once
callGenerateConfidence ==
    /\ svcInput.kind = "confidence" /\ svcOutput.status = "pending"
    /\ svcOutput' = [status |-> "returned", value |-> generateConfidence(svcInput.w)]
    /\ UNCHANGED <<vFile, vResult, svcInput, workflowVars>>

\* generateSimilarity called once
callGenerateSimilarity ==
    /\ svcInput.kind = "similarity" /\ svcOutput.status = "pending"
    /\ svcOutput' = [status |-> "returned", value |-> generateSimilarity(svcInput.w)]
    /\ UNCHANGED <<vFile, vResult, svcInput, workflowVars>>

NextServices ==
    \/ detectTile
    \/ getTileRecommendations
    \/ callGenerateConfidence
    \/ callGenerateSimilarity

SpecServices == InitServices /\ [][NextServices]_vars

(***************************************************************************)
(* ResultPage's selection of the detections it displays, on its own, for   *)
(* the detection sets a Detection Service may return: in any order, with   *)
(* ties, and with more members than the mock's three.                      *)
(***************************************************************************)
MaxDetections == 4

ResultConfidences == {600, 750, 900, 990}

\* the detectionResults props: null, and the i-th detection with id i
ResultProps ==
    {NoResults} \cup
    UNION {[isNull : {FALSE},
            detections : {[i \in 1..n |-> [id |-> i, confidence |-> c[i]]] :
                             c \in [1..n -> ResultConfidences]}] :
           n \in 0..MaxDetections}

InitResultPage ==
    /\ InitWorkflow
    /\ vFile = NoFile
    /\ vResult = "idle"
    /\ svcInput \in [kind : {"ResultPage"}, results : ResultProps]
    /\ svcOutput = [status |-> "pending"]

\* ResultPage renders with the prop
renderResultPage ==
    /\ svcInput.kind = "ResultPage" /\ svcOutput.status = "pending"
    /\ svcOutput' = [status |-> "returned", value |-> topDetectionsOf(svcInput.results)]
    /\ UNCHANGED <<vFile, vResult, svcInput, workflowVars>>

NextResultPage == renderResultPage

SpecResultPage == InitResultPage /\ [][NextResultPage]_vars

(***************************************************************************)
(* Properties.                                                             *)
(***************************************************************************)
\* a step that leaves Result or Recommendation for Upload: a reset
ResetStep == currentPage \in {"result", "recommendation"} /\ currentPage' = "upload"

\* C1: a reset, from Result or from Recommendation and whatever came before,
\* leaves screen = Upload, held image = none, preview handle = none,
\* detection set = none and reference tile = none.
C1_ResetRestoresInitial ==
    [][ResetStep =>
          /\ currentPage' = "upload"
          /\ uploadedImage' = NoFile
          /\ imagePreview' = NoUrl
          /\ detectionResults' = NoResults
          /\ selectedTileForRecommendation' = NoTile]_vars

\* C1's case: the workflow is back on Upload with nothing held, after an image
\* had been selected twice (the first preview URL is still live)
C1_Witness ==
    /\ currentPage = "upload"
    /\ uploadedImage = NoFile /\ imagePreview = NoUrl
    /\ detectionResults = NoResults /\ selectedTileForRecommendation = NoTile
    /\ appUrls # {}

\* C2: when a detect or recommend call settles, the screen that issued it is
\* still the active one and holds the image / reference tile the call was
\* issued for.
C2_CallsSettleInIssuingState ==
    [][/\ Len(detectCalls') < Len(detectCalls) =>
             /\ currentPage = "upload"
             /\ \A i \in DOMAIN detectCalls :
                   ~detectCalls[i].stale /\ detectCalls[i].arg = uploadedImage
       /\ Len(recommendCalls') < Len(recommendCalls) =>
             /\ currentPage = "recommendation"
             /\ \A i \in DOMAIN recommendCalls :
                   /\ ~recommendCalls[i].stale
                   /\ recommendCalls[i].arg = selectedTileForRecommendation]_vars

\* C2's case: a recommend call has settled and its result is on screen
C2_Witness ==
    /\ currentPage = "recommendation"
    /\ hasFetchedRef /\ recommendCalls = <<>>
    /\ ~recommendations.isNull

\* C3: an entry into Recommendation with a reference tile issues exactly one
\* Recommendation Service call, however often the entry effect runs.
C3_OneCallPerEntry ==
    (currentPage = "recommendation" /\ selectedTileForRecommendation # NoTile)
        => recIssued = 1

\* C3's case: the effect has run twice for one entry
C3_Witness ==
    currentPage = "recommendation" /\ effectRuns >= 2 /\ recIssued = 1

\* the effect, run again, issues a call
RerunIssuesCall == EffectRerun /\ Len(recommendCalls') > Len(recommendCalls)

\* C4: at most one service call is outstanding; while a detect call is pending
\* the detect action is not available, and while a recommend call is pending
\* neither Find Similar nor a further run of the entry effect issues a call.
C4_AtMostOneCallOutstanding ==
    /\ Len(detectCalls) + Len(recommendCalls) <= 1
    /\ detectCalls # <<>> => ~ENABLED handleDetect
    /\ recommendCalls # <<>> => ~ENABLED handleFindSimilar /\ ~ENABLED RerunIssuesCall

\* C4's case: a detect call is outstanding
C4_Witness == Len(detectCalls) = 1 /\ isProcessing

\* C5: at most one preview URL created by the App is live.
C5_AtMostOneAppUrl == Cardinality(appUrls) <= 1

\* C6: right after a reset, no preview URL the App created since the previous
\* reset is live.
C6_ResetReleasesAppUrls == [][ResetStep => sinceReset \cap appUrls' = {}]_vars

\* PNG, and JPEG under either of its two MIME spellings
IsPngOrJpeg(type) == type \in {"image/png", "image/jpeg", "image/jpg"}

TenMiB == 10485760

\* C7: validateFile accepts every present PNG / JPEG file of at most 10 MiB,
\* and rejects with a non-empty reason every absent file, every other type and
\* every size above 10 MiB.
C7_ValidateDecision ==
    vResult # "pending" =>
        /\ (vFile # NoFile /\ IsPngOrJpeg(vFile.type) /\ vFile.size <= TenMiB)
               => vResult = NoError
        /\ (vFile = NoFile \/ ~IsPngOrJpeg(vFile.type) \/ vFile.size > TenMiB)
               => vResult \notin {NoError, ""}

\* C7's case: a JPEG of exactly 10 MiB went through the gate and was accepted
C7_Witness ==
    /\ vFile # NoFile /\ vFile.type = "image/jpeg" /\ vFile.size = TenMiB
    /\ vResult = NoError

\* C8: the held image has passed validateFile, whatever its origin.
C8_HeldImagePassedGate == uploadedImage # NoFile => heldPassedGate

\* C9: a rejection by the gate sets only the uploader's error: the screen stays
\* Upload, the held image and its preview URL stay and no URL is created.
C9_RejectionChangesNothing ==
    [][/\ uploaderError' # NoError =>
             /\ currentPage' = "upload"
             /\ UNCHANGED <<appVars, appUrls, sinceReset, heldPassedGate>>
       /\ (uploaderError' # NoError /\ uploaderError' # uploaderError) =>
             UNCHANGED <<appVars, uploadPageVars, recPageVars, detectCalls,
                         recommendCalls, urlVars, heldPassedGate, camVars>>]_vars

\* C9's case: a file was rejected while an image was held, which is still held
C9_Witness ==
    /\ uploaderError = MsgTooLarge
    /\ uploadedImage # NoFile /\ imagePreview \in appUrls
    /\ currentPage = "upload"

\* what handleDetect must do when no image is held
DetectRefused ==
    /\ uploadError' = MsgSelectImage
    /\ detectCalls' = detectCalls
    /\ currentPage' = "upload"
    /\ UNCHANGED <<uploadedImage, imagePreview, detectionResults,
                   selectedTileForRecommendation>>

\* C10: handleDetect called with no image held issues no call, sets the
\* validation error and leaves the screen and the payload as they were.
C10_DetectWithoutImage ==
    (UploadFormShown /\ uploadedImage = NoFile) =>
        /\ ENABLED (handleDetect /\ DetectRefused)
        /\ ~ENABLED (handleDetect /\ ~DetectRefused)

\* C10's case: handleDetect has run with no image held
C10_Witness ==
    /\ uploadError = MsgSelectImage
    /\ uploadedImage = NoFile /\ detectCalls = <<>> /\ currentPage = "upload"

\* C11: when a detect call fails, the screen stays Upload, the generic error
\* is set, the held image and its preview URL stay (the URL live), no detection
\* set is stored and the Detect Tile button is on screen again.
C11_DetectFailureStaysOnUpload ==
    [][(lastStep' = "detectTile rejected" /\ detectCalls' # detectCalls) =>
          /\ currentPage' = "upload"
          /\ uploadError' = MsgDetectFailed
          /\ uploadedImage' = uploadedImage /\ uploadedImage' # NoFile
          /\ imagePreview' = imagePreview /\ imagePreview' \in appUrls'
          /\ detectionResults' = NoResults
          /\ DetectOffered']_vars

\* C11's case: a detect call has failed and the form is back with the image
C11_Witness ==
    /\ lastStep = "detectTile rejected"
    /\ uploadError = MsgDetectFailed /\ uploadedImage # NoFile
    /\ currentPage = "upload" /\ detectCalls = <<>>

\* C12: a step from Upload to Result is the settling of a detect call that
\* resolved, and the detection set stored by it is what the call returned (an
\* empty set included); no other step leads from Upload to Result.
C12_ResultOnlyByDetectSuccess ==
    [][(currentPage = "upload" /\ currentPage' = "result") =>
          /\ lastStep' = "detectTile"
          /\ \E i \in 1..Len(detectCalls) :
                 /\ ~detectCalls[i].stale
                 /\ detectCalls[i].arg = uploadedImage
                 /\ Len(detectCalls') = Len(detectCalls) - 1
          /\ \E d \in DetectDraws : detectionResults' = generateMockDetections(d)]_vars

\* C12's case: Result has just been entered with the set a detect call returned
C12_Witness ==
    /\ currentPage = "result" /\ lastStep = "detectTile"
    /\ ~detectionResults.isNull /\ Len(detectionResults.detections) = 3
    /\ detectCalls = <<>>

\* C13: when a recommend call fails the error view with its retry button is
\* shown and the reference tile is still held; the retry button issues exactly
\* one new recommend call for that tile and the screen stays Recommendation.
C13_RetryReissuesCall ==
    [][/\ (lastStep' = "getTileRecommendations rejected"
            /\ recommendCalls' # recommendCalls) =>
              /\ RetryShown'
              /\ selectedTileForRecommendation' = selectedTileForRecommendation
              /\ selectedTileForRecommendation' # NoTile
       /\ (RetryShown /\ lastStep' = "reload") =>
              /\ currentPage' = "recommendation"
              /\ selectedTileForRecommendation' = selectedTileForRecommendation
              /\ Len(recommendCalls') = Len(recommendCalls) + 1
              /\ recommendCalls'[Len(recommendCalls')].arg
                     = selectedTileForRecommendation]_vars

\* C14: on the Recommendation screen with no reference tile no recommend call
\* has been issued or is outstanding, the view for a missing tile is shown with
\* its error set, back is offered and neither reset nor retry is.
C14_NoTileNoCallOnlyBack ==
    (currentPage = "recommendation" /\ selectedTileForRecommendation = NoTile) =>
        /\ recIssued = 0 /\ recommendCalls = <<>>
        /\ RecView = "noTileSelected"
        /\ recError = MsgNoReference
        /\ ENABLED handleBackToResults
        /\ ~ENABLED handleReset
        /\ ~RetryShown
        /\ ~ENABLED handleFindSimilar

\* C14's case: Recommendation was entered without a tile and the entry effect
\* has run
C14_Witness ==
    /\ currentPage = "recommendation" /\ selectedTileForRecommendation = NoTile
    /\ effectRuns >= 1 /\ recError = MsgNoReference

\* C15: back on the Recommendation screen leads to Result, clears the
\* reference tile and the recommendation set, and leaves the held image, its
\* preview URL (still live) and the detection set as they were.
C15_BackKeepsImageAndDetections ==
    [][(currentPage = "recommendation" /\ lastStep' = "handleBackToResults") =>
          /\ currentPage' = "result"
          /\ selectedTileForRecommendation' = NoTile
          /\ recommendations' = NoRecommendations
          /\ UNCHANGED <<uploadedImage, imagePreview, detectionResults>>
          /\ uploadedImage' # NoFile
          /\ imagePreview' \in appUrls']_vars

\* C15's case: back has just been taken from a Recommendation screen that was
\* showing the recommendations for a tile
C15_Witness ==
    /\ lastStep = "handleBackToResults"
    /\ currentPage = "result" /\ selectedTileForRecommendation = NoTile
    /\ recommendations = NoRecommendations
    /\ hasDetections /\ imagePreview \in appUrls

\* tile is the detection at the first position of dets that holds the highest
\* confidence in dets
IsFirstOfMaxConfidence(tile, dets) ==
    \E k \in 1..Len(dets) :
        /\ dets[k] = tile
        /\ \A j \in 1..Len(dets) : dets[j].confidence <= tile.confidence
        /\ \A j \in 1..(k - 1) : dets[j].confidence < tile.confidence

\* C16: the reference tile held on the Recommendation screen is a detection of
\* the highest confidence in the held detection set and, among those of that
\* confidence, the first in the set's order.
C16_DefaultTileIsFirstMax ==
    (currentPage = "recommendation" /\ selectedTileForRecommendation # NoTile) =>
        IsFirstOfMaxConfidence(selectedTileForRecommendation,
                               detectionResults.detections)

\* C16's case: Find Similar was taken on a detection set whose first two
\* detections share the highest confidence and whose third is lower
C16_Witness ==
    /\ currentPage = "recommendation" /\ selectedTileForRecommendation # NoTile
    /\ Len(detectionResults.detections) = 3
    /\ detectionResults.detections[1].confidence
           = detectionResults.detections[2].confidence
    /\ detectionResults.detections[3].confidence
           < detectionResults.detections[1].confidence
    /\ selectedTileForRecommendation = detectionResults.detections[1]

\* the Result screen holds an empty (or no) detection set
ResultWithoutDetections ==
    currentPage = "result" /\ Len(detectionResults.detections) = 0

\* C17: on Result with an empty or absent detection set the no-detection view
\* is shown, Find Similar is neither on screen nor able to act, reset is the
\* one action offered, and no step from there leads to Recommendation.
C17_EmptySetOnlyReset ==
    /\ [](ResultWithoutDetections =>
             /\ ResultView = "noDetections"
             /\ ~FindSimilarShown
             /\ ~ENABLED handleFindSimilar
             /\ ENABLED handleReset
             /\ ~ENABLED handleBackToResults
             /\ ~ENABLED clickDetect
             /\ ~ENABLED handleFileChange
             /\ ~ENABLED openCamera)
    /\ [][ResultWithoutDetections => currentPage' \in {"result", "upload"}]_vars

\* C17's case: a detect call returned an empty set and Result shows it
C17_Witness ==
    /\ currentPage = "result" /\ lastStep = "detectTile"
    /\ ~detectionResults.isNull /\ detectionResults.detections = <<>>

\* C18: a recommend call that resolves leaves no error and stores the set it
\* returned; when that set is empty it is stored as the empty set and the page
\* shows the no-recommendations view, not the error view with its retry button.
C18_EmptyRecommendationsIsSuccess ==
    [][(/\ lastStep' = "getTileRecommendations"
        /\ Len(recommendCalls') < Len(recommendCalls)
        /\ currentPage = "recommendation") =>
          /\ recError' = NoError
          /\ ~recIsLoading'
          /\ \E d \in RecommendDraws :
                 recommendations' =
                     generateMockRecommendations(selectedTileForRecommendation, d)
          /\ recommendations'.items = <<>> =>
                 /\ ~recommendations'.isNull
                 /\ RecView' = "noRecommendations"
                 /\ ~RetryShown']_vars

\* C18's case: a recommend call has resolved with the empty set
C18_Witness ==
    /\ lastStep = "getTileRecommendations"
    /\ currentPage = "recommendation" /\ selectedTileForRecommendation # NoTile
    /\ recommendCalls = <<>>
    /\ ~recommendations.isNull /\ recommendations.items = <<>>
    /\ recError = NoError

\* the score of a returned item: confidence of a detection, similarity of a
\* recommendation
Score(item) == IF svcInput.kind = "detect" THEN item.confidence ELSE item.similarity

\* C19: whatever the draws, the set a service returns is in non-increasing
\* order of score: every item's score is at least that of the item after it.
C19_ReturnedSetsNonIncreasing ==
    svcOutput.status = "resolved" =>
        \A i \in 1..(Len(svcOutput.value) - 1) :
            Score(svcOutput.value[i]) >= Score(svcOutput.value[i + 1])

\* C19's case: a recommend call returned eight items whose scores were drawn
\* in rising order, the first above the last
C19_Witness ==
    /\ svcInput.kind = "recommend" /\ svcOutput.status = "resolved"
    /\ Len(svcOutput.value) = 8
    /\ svcInput.d.weight[1] < svcInput.d.weight[8]
    /\ svcOutput.value[1].similarity > svcOutput.value[8].similarity

\* C20: the set a recommend call for a tile of id r returns holds no item of
\* id r and no id twice.
C20_NoReferenceNoDuplicates ==
    (svcInput.kind = "recommend" /\ svcOutput.status = "resolved") =>
        /\ \A i \in 1..Len(svcOutput.value) :
               svcOutput.value[i].id # svcInput.tile.id
        /\ \A i, j \in 1..Len(svcOutput.value) :
               i # j => svcOutput.value[i].id # svcOutput.value[j].id

\* C20's case: a recommend call for tile 104, which is in the catalogue,
\* returned the seven other tiles
C20_Witness ==
    /\ svcInput.kind = "recommend" /\ svcOutput.status = "resolved"
    /\ svcInput.tile.id = 104
    /\ Len(svcOutput.value) = 7

\* C21: for every value of the random source, a confidence is between 0.500
\* and 0.990 and a similarity between 0.720 and 0.950, in thousandths and
\* bounds included; so is every score in a set a service returns.
C21_ScoresInRange ==
    /\ (svcInput.kind = "confidence" /\ svcOutput.status = "returned") =>
           (500 <= svcOutput.value /\ svcOutput.value <= 990)
    /\ (svcInput.kind = "similarity" /\ svcOutput.status = "returned") =>
           (720 <= svcOutput.value /\ svcOutput.value <= 950)
    /\ (svcInput.kind = "detect" /\ svcOutput.status = "resolved") =>
           \A i \in 1..Len(svcOutput.value) :
               500 <= svcOutput.value[i].confidence
                   /\ svcOutput.value[i].confidence <= 990
    /\ (svcInput.kind = "recommend" /\ svcOutput.status = "resolved") =>
           \A i \in 1..Len(svcOutput.value) :
               720 <= svcOutput.value[i].similarity
                   /\ svcOutput.value[i].similarity <= 950

\* C21's case: the highest value of the random source gave the confidence
\* 0.990, the upper bound itself
C21_Witness ==
    /\ svcInput.kind = "confidence" /\ svcOutput.status = "returned"
    /\ svcInput.w = Resolution - 1
    /\ svcOutput.value = 990

\* C22: a recommend call is rejected exactly when the reference tile is absent
\* or carries no id; for every tile that carries an id, 0 included, it resolves
\* with a recommendation set.
C22_RejectsIffNoIdentifier ==
    (svcInput.kind = "recommend" /\ svcOutput.status # "pending") =>
        IF svcInput.tile = NoTile \/ svcInput.tile.id = NoId
        THEN svcOutput.status = "rejected"
        ELSE svcOutput.status = "resolved"

\* C23: once a CameraCapture instance is closed, in whatever state it was
\* closed (a getUserMedia call still pending included), no stream acquired by
\* that instance is active: no active stream belongs to an unmounted instance.
C23_NoStreamOfClosedInstance == leakedStreams = 0

\* C24: at most one camera stream is active in every reachable state.
C24_AtMostOneActiveStream == activeStreams <= 1

\* C25: releasing the stream is idempotent. The tracks of the stream an
\* instance holds are never stopped more than once; on every step on which the
\* instance leaves the screen (confirm, close, or the page being replaced) a
\* stream it holds has its tracks stopped exactly once although stopCamera runs
\* in the handler and again in the effect's cleanup, the instance holds no
\* stream afterwards, and with no stream held the release stops nothing.
C25_ReleaseStopsTracksOnce ==
    /\ [](trackStops \in {0, 1} /\ (streamRef => trackStops = 0))
    /\ [][(showCamera /\ ~showCamera') =>
             /\ ~streamRef'
             /\ trackStops' = IF streamRef THEN 1 ELSE trackStops]_vars

\* C25's case: the instance left by confirm, or by close, with its stream
\* stopped
C25_Witness ==
    /\ lastStep \in {"confirmCapture", "handleClose"}
    /\ ~showCamera /\ ~streamRef /\ trackStops = 1

\* the error view of CameraCapture is on the screen
CameraErrorShown == showCamera /\ camError # NoError

\* a step on which initCamera fails
InitCameraFails == camError = NoError /\ camError' # NoError

\* what holds of an error state whichever messages there are: the spinner is
\* gone, no stream is held, capture, retake and confirm are not available,
\* close is, the error stays for as long as the instance is mounted, and close
\* leads to the upload form
ErrorStateOnlyCloses ==
    /\ [](CameraErrorShown =>
             /\ ~camIsLoading /\ ~streamRef /\ ~gumPending /\ ~metaPending
             /\ ~CameraActionsShown
             /\ ~ENABLED capturePhoto
             /\ ~ENABLED retakePhoto
             /\ ~ENABLED confirmCapture
             /\ ENABLED handleClose)
    /\ [][CameraErrorShown =>
             \/ showCamera' /\ camError' = camError
             \/ lastStep' = "handleClose" /\ UploadFormShown']_vars

C27_NoCameraUrlOutlivesInstance ==
    camUrls \subseteq (IF showCamera /\ isCaptured THEN {capturedImage} ELSE {})

\* the live preview with the capture button: CameraCapture's Ready
CameraReady == CameraActionsShown /\ ~isCaptured

\* the still with the retake and confirm buttons: CameraCapture's Captured
CameraCaptured == CameraActionsShown /\ isCaptured

\* C28: retake is offered in Captured, and a retake step revokes the URL of the
\* displayed still and leaves the instance in Ready holding the stream it held:
\* the stream is not stopped, no stream is acquired or requested, capture is
\* available and confirm is not.
C28_RetakeReturnsToReady ==
    /\ [](CameraCaptured => ENABLED retakePhoto)
    /\ [][lastStep' = "retakePhoto" =>
             /\ CameraCaptured
             /\ capturedImage \in camUrls
             /\ capturedImage \notin camUrls'
             /\ capturedImage' = NoUrl
             /\ CameraReady'
             /\ streamRef /\ streamRef'
             /\ trackStops' = 0
             /\ activeStreams' = activeStreams
             /\ ~gumPending' /\ orphanGum' = orphanGum
             /\ ~(ENABLED confirmCapture)']_vars

\* C28's case: a retake has just been taken and the live preview is back
C28_Witness == lastStep = "retakePhoto" /\ CameraReady /\ streamRef

\* C29: confirm is available only in Captured. A confirm step stops the tracks
\* of the held stream, hands over the file of the displayed still, which is
\* the file of the last capture that was encoded, and leaves the App holding
\* that file as the uploaded image with CameraCapture closed and the upload
\* form back.
C29_ConfirmHandsDisplayedStill ==
    /\ [](ENABLED confirmCapture => CameraCaptured /\ streamRef)
    /\ [][lastStep' = "confirmCapture" =>
             /\ CameraCaptured
             /\ stillFile # NoFile
             /\ uploadedImage' = stillFile
             /\ trackStops' = 1
             /\ ~streamRef'
             /\ activeStreams' = activeStreams - 1
             /\ ~showCamera'
             /\ UploadFormShown']_vars

\* C29's case: a confirm has just handed a captured file to the App
C29_Witness ==
    /\ lastStep = "confirmCapture"
    /\ uploadedImage \in CameraFiles
    /\ ~showCamera /\ ~streamRef /\ trackStops = 1

\* C30: ResultPage displays at most three detections; they are distinct
\* members of the detection set it was given, in non-increasing order of
\* confidence, and no member left out has a higher confidence than a displayed
\* one, whatever the order of the set.
C30_TopThreeByConfidence ==
    (svcInput.kind = "ResultPage" /\ svcOutput.status = "returned") =>
        LET held == svcInput.results.detections
            shown == svcOutput.value
            shownIds == {shown[i].id : i \in 1..Len(shown)}
        IN /\ Len(shown) = Min(3, Len(held))
           /\ \A i \in 1..Len(shown) : \E j \in 1..Len(held) : shown[i] = held[j]
           /\ Cardinality(shownIds) = Len(shown)
           /\ \A i \in 1..(Len(shown) - 1) :
                  shown[i].confidence >= shown[i + 1].confidence
           /\ \A j \in 1..Len(held) :
                  held[j].id \notin shownIds =>
                      \A i \in 1..Len(shown) :
                          held[j].confidence <= shown[i].confidence

\* C30's case: four detections returned in increasing order of confidence, of
\* which the last three are displayed, the last one first
C30_Witness ==
    /\ svcInput.kind = "ResultPage" /\ svcOutput.status = "returned"
    /\ Len(svcInput.results.detections) = 4
    /\ \A j \in 1..3 : svcInput.results.detections[j].confidence
                            < svcInput.results.detections[j + 1].confidence
    /\ Len(svcOutput.value) = 3
    /\ svcOutput.value[1] = svcInput.results.detections[4]

\* a loader is on the screen: the page waits for its service call
LoaderShown ==
    \/ currentPage = "upload" /\ isProcessing
    \/ /\ currentPage = "recommendation"
       /\ selectedTileForRecommendation # NoTile
       /\ recIsLoading

\* no service call of the page on screen and no camera acquisition is pending
NothingPending == ~LoaderShown /\ ~(showCamera /\ gumPending)

\* the upload form is on the screen after one user action: close of the
\* camera, or reset
UploadFormInOne ==
    \/ ENABLED (handleClose /\ UploadFormShown')
    \/ ENABLED (handleReset /\ UploadFormShown')

\* C31: no state is a dead end. In every state with nothing pending the upload
\* form, where an image can be selected, is on the screen, or one user action
\* (close of the camera, reset) brings it there, or back to results followed
\* by reset does; this includes the views of a failed detect call, a failed
\* recommend call, a missing reference tile and a camera error.
C31_NoDeadEnd ==
    NothingPending =>
        \/ UploadFormShown
        \/ UploadFormInOne
        \/ ENABLED (handleBackToResults /\ UploadFormInOne')

\* C31's case: the no-tile view of Recommendation, from which the upload form
\* is two user actions away
C31_Witness ==
    /\ currentPage = "recommendation"
    /\ selectedTileForRecommendation = NoTile
    /\ recError = MsgNoReference
    /\ NothingPending
    /\ ~UploadFormInOne

\* the loader of UploadPage is on the screen
DetectLoaderShown == currentPage = "upload" /\ isProcessing

\* the loader of RecommendationPage is on the screen
RecommendLoaderShown ==
    /\ currentPage = "recommendation"
    /\ selectedTileForRecommendation # NoTile
    /\ recIsLoading

\* C32: with timers that fire, again and again every detect and recommend
\* call that was issued has settled and no loader is on the screen, so that no
\* call stays in flight and no loader stays forever; and the step on which the
\* call of a page that shows its loader settles, by resolving or by rejecting,
\* takes the loader off the screen.
C32_CallsSettleLoaderClears ==
    /\ []<>(detectCalls = <<>> /\ recommendCalls = <<>> /\ ~LoaderShown)
    /\ [][(DetectLoaderShown /\ lastStep' \in {"detectTile", "detectTile rejected"})
             => ~DetectLoaderShown' /\ ~isProcessing']_vars
    /\ [][(RecommendLoaderShown /\ lastStep' \in {"getTileRecommendations",
                                                  "getTileRecommendations rejected"})
             => ~RecommendLoaderShown' /\ ~recIsLoading']_vars

\* C32's case: a rejected detect call has just settled and the form is back
C32_Witness ==
    /\ lastStep = "detectTile rejected"
    /\ currentPage = "upload" /\ ~isProcessing /\ uploadError = MsgDetectFailed
    /\ detectCalls = <<>>

\* C33: whenever Recommendation is the current page the reference tile is not
\* null, carries an id, and is a member of the held detection set that no
\* member exceeds in confidence; the no-tile view and its message are never
\* shown.
C33_ReferenceTileAlwaysHeld ==
    currentPage = "recommendation" =>
        /\ selectedTileForRecommendation # NoTile
        /\ selectedTileForRecommendation.id \notin {NoId, 0}
        /\ ~detectionResults.isNull
        /\ \E k \in 1..Len(detectionResults.detections) :
               detectionResults.detections[k] = selectedTileForRecommendation
        /\ \A k \in 1..Len(detectionResults.detections) :
               detectionResults.detections[k].confidence
                   <= selectedTileForRecommendation.confidence
        /\ RecView # "noTileSelected"
        /\ recError # MsgNoReference

\* C33's case: Recommendation shows the cards for the reference tile while the
\* detection set holds a detection of lower confidence
C33_Witness ==
    /\ currentPage = "recommendation" /\ RecView = "cards"
    /\ selectedTileForRecommendation # NoTile
    /\ \E k \in 1..Len(detectionResults.detections) :
           detectionResults.detections[k].confidence
               < selectedTileForRecommendation.confidence

\* a reset or a reload: Upload with nothing held
BackToEmptyUpload ==
    /\ currentPage' = "upload"
    /\ uploadedImage' = NoFile
    /\ imagePreview' = NoUrl
    /\ detectionResults' = NoResults
    /\ selectedTileForRecommendation' = NoTile

\* C34: on Result and on Recommendation an image, a live preview URL and a
\* non-null detection set are held; on Upload the detection set and the
\* reference tile are none. The detection set is set only by the settling of
\* the one detect call in flight, which was issued for the held image, and is
\* otherwise only cleared; and while a detect call is in flight or the page is
\* not Upload the held image and its preview URL do not change short of
\* everything being cleared.
C34_ResultsBelongToHeldImage ==
    /\ [](currentPage \in {"result", "recommendation"} =>
             /\ uploadedImage # NoFile
             /\ imagePreview # NoUrl /\ imagePreview \in appUrls
             /\ ~detectionResults.isNull)
    /\ [](currentPage = "upload" =>
             /\ detectionResults = NoResults
             /\ selectedTileForRecommendation = NoTile)
    /\ [][detectionResults' # detectionResults =>
             \/ /\ lastStep' = "detectTile"
                /\ currentPage = "upload" /\ isProcessing
                /\ Len(detectCalls) = 1
                /\ detectCalls[1].arg = uploadedImage
                /\ ~detectCalls[1].stale
                /\ uploadedImage' = uploadedImage
                /\ imagePreview' = imagePreview
                /\ currentPage' = "result"
             \/ BackToEmptyUpload]_vars
    /\ [][(detectCalls # <<>> \/ currentPage # "upload") =>
             \/ uploadedImage' = uploadedImage /\ imagePreview' = imagePreview
             \/ BackToEmptyUpload]_vars

\* C34's case: Recommendation is shown with the image, its live preview URL
\* and the detection set held
C34_Witness ==
    /\ currentPage = "recommendation"
    /\ uploadedImage # NoFile
    /\ imagePreview \in appUrls
    /\ ~detectionResults.isNull
    /\ Len(detectionResults.detections) > 0

\* a Find Similar step: Result is left for Recommendation
FindSimilarStep == currentPage = "result" /\ currentPage' = "recommendation"

\* C35: Find Similar followed, once the recommend call has settled (with
\* recommendations, with none, or by rejecting), by back is a round trip. On
\* Result the reference tile is none; Find Similar changes the page and the
\* reference tile only, sets the first of topDetections and issues one fresh
\* call for it; no step that stays on Recommendation changes the image, its
\* preview URL, the detection set or the reference tile; back restores Result
\* with the reference tile none and these unchanged, so that the first of
\* topDetections is still the tile that was the reference, and the Find
\* Similar button is on the screen again for a page that has issued no call.
C35_FindSimilarBackRoundTrip ==
    /\ [](currentPage = "result" => selectedTileForRecommendation = NoTile)
    /\ [][FindSimilarStep =>
             /\ UNCHANGED <<uploadedImage, imagePreview, detectionResults, appUrls>>
             /\ selectedTileForRecommendation' = topDetections[1]
             /\ recIssued' = 1
             /\ recIsLoading'
             /\ Len(recommendCalls') = Len(recommendCalls) + 1
             /\ recommendCalls'[Len(recommendCalls')] =
                    [arg |-> topDetections[1], stale |-> FALSE]]_vars
    /\ [][(currentPage = "recommendation" /\ currentPage' = "recommendation") =>
             UNCHANGED <<uploadedImage, imagePreview, detectionResults, appUrls,
                         selectedTileForRecommendation>>]_vars
    /\ [][lastStep' = "handleBackToResults" =>
             /\ currentPage = "recommendation" /\ ~recIsLoading
             /\ currentPage' = "result"
             /\ selectedTileForRecommendation' = NoTile
             /\ UNCHANGED <<uploadedImage, imagePreview, detectionResults, appUrls>>
             /\ ~hasFetchedRef' /\ recIssued' = 0
             /\ Len(topDetections) > 0
             /\ topDetections[1] = selectedTileForRecommendation
             /\ FindSimilarShown']_vars

\* C35's case: back was taken after the recommend call settled, and the Find
\* Similar button is on the screen again with no call in flight
C35_Witness ==
    /\ lastStep = "handleBackToResults"
    /\ currentPage = "result"
    /\ recommendCalls = <<>>
    /\ FindSimilarShown /\ Len(topDetections) > 0

=============================================================================
